---- MODULE Spec2Model ----
(***************************************************************************)
(* A model of FileTypeSigModule (src/FileTypeModule.cpp): the pipeline     *)
(* module that reads the first FILE_BUFFER_SIZE bytes of a file, asks      *)
(* libmagic for a type label and posts the sanitized label as a            *)
(* TSK_FILE_TYPE_SIG attribute of the file.                                *)
(*                                                                         *)
(* Strings are sequences of bytes (1..255); NUL is the terminator.         *)
(***************************************************************************)
EXTENDS Integers, Sequences, FiniteSets

(***************************************************************************)
(* The state.                                                              *)
(***************************************************************************)
VARIABLES
    magicHandle,  \* static magic_t magicHandle: NULL, or the handle magic_open returned
    opened,       \* the handles magic_open has returned so far are 1..opened
    loaded,       \* libmagic: the handles that hold a loaded database
    database,     \* the file <MODULE_DIR>/FileTypeSigModule/magic.mgc on disk
    attrs,        \* the blackboard: each file's attributes, in the order added
    last,         \* what the latest call of the module did
    initOutcome,  \* history of initialize: how its calls have ended so far
    fileLabel,    \* concurrent runs: the label the matcher gives for each
                  \* file's bytes
    pc,           \* concurrent runs: where each thread stands in run
    readLen,      \* concurrent runs: each thread's local readLen
    type,         \* concurrent runs: each thread's local type: NULL, or the
                  \* handle whose result buffer it points into
    stale,        \* concurrent runs: the threads whose type points to a result
                  \* another magic_buffer call has since released
    result,       \* libmagic: the label in the handle's result buffer
    inMagic,      \* concurrent runs: the threads inside magic_buffer
    raced,        \* concurrent runs: the threads whose magic_buffer call ran
                  \* while another thread was inside magic_buffer
    cleanType,    \* concurrent runs: each thread's local cleanType, as a string
    status        \* concurrent runs: what each thread's run returned

seqVars == <<magicHandle, opened, loaded, database, last, initOutcome>>

concVars == <<fileLabel, pc, readLen, type, stale, result, inMagic, raced, cleanType, status>>

vars == <<magicHandle, opened, loaded, database, attrs, last, initOutcome,
          fileLabel, pc, readLen, type, stale, result, inMagic, raced, cleanType, status>>

(***************************************************************************)
(* Program constants.                                                      *)
(***************************************************************************)
MODULE_NAME == "FileTypeSigModule"

FILE_BUFFER_SIZE == 1024

\* char cleanType[1024]
CleanTypeSize == 1024

\* cleanType[1023] = '\0'
TerminatorIndex == 1023

\* A slip: the count is the size of the array.
StrncpyWholeArray == CleanTypeSize

\* strncpy(cleanType, type, 1023)
StrncpyCount == 1023

NUL == 0

(***************************************************************************)
(* Bounds of the model.                                                    *)
(***************************************************************************)
\* attributes the blackboard holds, over all files, before run stops being called
MaxAttrs == 1

\* calls of initialize (each one opens a handle)
MaxOpens == 2

(***************************************************************************)
(* C string primitives used by run.  A C array of n bytes is the sequence  *)
(* of its cells: cell i of the code is element i + 1 of the sequence.      *)
(***************************************************************************)
Min2(a, b) == IF a < b THEN a ELSE b

Max2(a, b) == IF a < b THEN b ELSE a

\* s itself, with every element evaluated (an explicit tuple).
Tuple(s) == s \o <<>>

\* The first n bytes of s (all of s when it is shorter).
Prefix(s, n) == Tuple([i \in 1..Min2(Len(s), n) |-> s[i]])

\* An automatic char array before anything is written: every cell holds the
\* same indeterminate byte g.
Uninit(size, g) == Tuple([i \in 1..size |-> g])

\* buf[i] = b; a store outside the array leaves the array as it is.
StoreByte(buf, i, b) ==
    IF i >= 0 /\ i < Len(buf)
    THEN Tuple([k \in 1..Len(buf) |-> IF k = i + 1 THEN b ELSE buf[k]])
    ELSE buf

\* strncpy(dst, src, n): exactly n bytes are written, the bytes of src and
\* then NUL padding; no terminator is written when src has n bytes or more.
strncpy(dst, src, n) ==
    Tuple([k \in 1..Len(dst) |->
              IF k <= n THEN (IF k <= Len(src) THEN src[k] ELSE NUL) ELSE dst[k]])

\* The least m in lo..hi with buf[m] = NUL, given that there is one.
RECURSIVE FirstNul(_, _, _)
FirstNul(buf, lo, hi) ==
    IF lo >= hi THEN hi
    ELSE LET mid == (lo + hi) \div 2
         IN  IF \E i \in lo..mid : buf[i + 1] = NUL
             THEN FirstNul(buf, lo, mid)
             ELSE FirstNul(buf, mid + 1, hi)

\* Whether the array holds a terminator at all.
Terminated(buf) == \E k \in 1..Len(buf) : buf[k] = NUL

\* strlen(buf): the index of the first NUL; the size of the array when there
\* is none (the scan then leaves the array).
strlen(buf) ==
    IF Terminated(buf) THEN FirstNul(buf, 0, Len(buf) - 1) ELSE Len(buf)

\* The C string an array holds.
CString(buf) == Prefix(buf, strlen(buf))

(***************************************************************************)
(* TskUtilities::cleanUTF8 (the framework's tsk_cleanupUTF8 with '^'):     *)
(* the string is scanned a character at a time, the lead byte giving the   *)
(* character's length; a character that is not legal UTF-8, or that runs   *)
(* past the end of the string, has each of its bytes replaced.  The length *)
(* of the string never changes.                                            *)
(***************************************************************************)
Replacement == 94

\* trailingBytesForUTF8[b] + 1
Utf8Length(b) ==
    IF b < 192 THEN 1
    ELSE IF b < 224 THEN 2
    ELSE IF b < 240 THEN 3
    ELSE IF b < 248 THEN 4
    ELSE IF b < 252 THEN 5
    ELSE 6

IsContinuation(b) == b >= 128 /\ b <= 191

\* isLegalUTF8 for the character of n bytes that starts at s[j].
isLegalUTF8(s, j, n) ==
    /\ n <= 4
    /\ n >= 4 => IsContinuation(s[j + 3])
    /\ n >= 3 => IsContinuation(s[j + 2])
    /\ n >= 2 =>
          /\ s[j + 1] <= 191
          /\ CASE s[j] = 224 -> s[j + 1] >= 160
               [] s[j] = 237 -> s[j + 1] <= 159
               [] s[j] = 240 -> s[j + 1] >= 144
               [] s[j] = 244 -> s[j + 1] <= 143
               [] OTHER -> s[j + 1] >= 128
    /\ ~(s[j] >= 128 /\ s[j] < 194)
    /\ s[j] <= 244

\* Where the scan stands after the character that starts at i (Len(s) + 1:
\* the end of the string).
NextChar(s, i) == Min2(i + Utf8Length(s[i]), Len(s) + 1)

\* The positions the scan visits, by repeated squaring of the jump table:
\* after k rounds, every position within 2^k - 1 characters of the start.
RECURSIVE Visited(_, _, _)
Visited(jump, seen, k) ==
    IF k = 0 THEN seen
    ELSE Visited(Tuple([i \in 1..Len(jump) |-> jump[jump[i]]]),
                 seen \cup {jump[i] : i \in seen}, k - 1)

RECURSIVE Log2Ceil(_)
Log2Ceil(n) == IF n <= 1 THEN 0 ELSE 1 + Log2Ceil((n + 1) \div 2)

\* The positions at which the scan of s starts a character.
CharStarts(s) ==
    LET n == Len(s)
        jump == Tuple([i \in 1..(n + 1) |-> IF i > n THEN n + 1 ELSE NextChar(s, i)])
    IN  IF n = 0 THEN {}
        ELSE Visited(jump, {1}, Log2Ceil(n + 1) + 1) \ {n + 1}

cleanUTF8(s) ==
    LET n == Len(s)
        starts == CharStarts(s)
        \* the start of the character byte i belongs to
        StartOf(i) == CHOOSE j \in Max2(1, i - 5)..i :
                          j \in starts /\ i < j + Utf8Length(s[j])
        Bad(j) == \/ j + Utf8Length(s[j]) > n + 1
                  \/ ~isLegalUTF8(s, j, Utf8Length(s[j]))
    IN  Tuple([i \in 1..n |-> IF Bad(StartOf(i)) THEN Replacement ELSE s[i]])

(***************************************************************************)
(* The labels the matcher returns in the model: a valid two-byte           *)
(* character, an invalid byte, and labels of StrncpyCount bytes and more,  *)
(* one of which has a two-byte character across the StrncpyCount boundary. *)
(***************************************************************************)
Long(n) == Tuple([i \in 1..n |-> 97])

LabelTable ==
    << <<195, 169>>,
       <<97, 255>>,
       Long(1023),
       Long(1024),
       Long(1022) \o <<195, 169>> >>

\* A label of the model is named by its place in LabelTable.
Labels == 1..Len(LabelTable)

\* const char *type = NULL
NoLabel == 0

(***************************************************************************)
(* run, lines 149-153: the label is copied into cleanType and sanitized    *)
(* there.  g is the indeterminate byte the array holds before the stores.  *)
(***************************************************************************)
CleanType(label, g) ==
    LET b0 == Uninit(CleanTypeSize, g)
        b1 == StoreByte(b0, TerminatorIndex, NUL)
        b2 == strncpy(b1, label, StrncpyCount)
        handed == CString(b2)
    IN  [handed     |-> handed,
         terminated |-> Terminated(b2),
         \* the highest cell of cleanType written or read
         maxIndex   |-> Max2(Max2(TerminatorIndex, StrncpyCount - 1), strlen(b2)),
         value      |-> cleanUTF8(handed)]

\* The indeterminate bytes of the model, named by their place.
GarbageTable == <<NUL, 97>>

Garbage == 1..Len(GarbageTable)

\* CleanType of every label of the model, computed once.
CleanTypeTable ==
    Tuple([k \in Labels |->
              Tuple([g \in Garbage |-> CleanType(LabelTable[k], GarbageTable[g])])])

NULL == 0

\* The files of the host: TskFile objects 1 and 2.
Files == {1, 2}

Threads == {1, 2}

\* What a call into the host may do: return a value, or throw a TskException
\* or a std::exception.
Returned(n) == [thrown |-> FALSE, value |-> n]

Thrown == [thrown |-> TRUE, value |-> 0]

\* What getSize() may do: return a size, or throw.
FileSizes == {0, 1, 2000}

SizeOutcomes == {Returned(n) : n \in FileSizes} \cup {Thrown}

(***************************************************************************)
(* The host and the library, as run and initialize see them.               *)
(***************************************************************************)
\* TskFile::read(buffer, count) on a file of the given size: it throws,
\* reports an error (-1), reads nothing (0), or fills at most count bytes
\* and no more than the file holds.
ReadOutcomes(size, count) ==
    {Thrown} \cup
    {Returned(n) : n \in {-1, 0} \cup {m \in {1, Min2(size, count)} : 1 <= m /\ m <= size}}

\* magic_buffer(handle, buffer, n): a label, or NULL with an error set.  A
\* handle without a loaded database has "no magic files loaded" and gives
\* NULL.
MagicBufferOutcomes(handle) ==
    IF handle \in loaded THEN Labels \cup {NoLabel} ELSE {NoLabel}

\* magic_load(handle, path): 0, or -1 when the database does not parse.
magic_load(handle, db) == IF handle # NULL /\ db = "good" THEN 0 ELSE -1

\* Poco::File(path).exists()
Exists(db) == db # "missing"

\* TskFile::addGenInfoAttribute(attr): the attribute is added, or the call
\* throws and adds nothing.
AddOutcomes == {Returned(0), Thrown}

(***************************************************************************)
(* The record of a call.                                                   *)
(***************************************************************************)
\* op: the entry point ("host": a change the host made between calls);
\* status: OK, FAIL, or THROWN when an exception left the call; logs: the
\* LOGERROR calls; thrown: the exceptions the host's file object threw;
\* size: what getSize() returned (-1: it did not return); reads, matches,
\* adds, loads: the calls of read, magic_buffer, addGenInfoAttribute (that
\* returned) and magic_load; readReq, readLen: the count read was asked for
\* and what it returned; matchLen, matchHandle: the length and the handle
\* given to magic_buffer; label: what magic_buffer returned; garbage: what
\* cleanType held at first; exists, loadRc: what initialize found.
NoCall ==
    [op |-> "none", status |-> "OK", logs |-> 0, thrown |-> 0, file |-> NULL,
     size |-> -1, reads |-> 0, readReq |-> 0, readLen |-> 0,
     matches |-> 0, matchLen |-> 0, matchHandle |-> NULL, label |-> NoLabel,
     garbage |-> 1, adds |-> 0, exists |-> FALSE, loads |-> 0, loadRc |-> 0]

(***************************************************************************)
(* initialize, lines 85-107.                                               *)
(***************************************************************************)
\* A slip: only a positive return counts as an error.
LoadFailedPositive(rc) == rc > 0

\* line 99: if (magic_load(magicHandle, path.c_str()))
LoadFailed(rc) == rc # 0

\* The call with magic_open returning handle h and the database in state db.
initialize(h, db) ==
    LET exists == Exists(db)
        rc     == IF exists THEN magic_load(h, db) ELSE 0
        failed == ~exists \/ LoadFailed(rc)
    IN  [NoCall EXCEPT !.op = "initialize",
                       !.status = IF failed THEN "FAIL" ELSE "OK",
                       !.logs = IF failed THEN 1 ELSE 0,
                       !.exists = exists,
                       !.loads = IF exists THEN 1 ELSE 0,
                       !.loadRc = rc]

\* A slip: the handle is opened only once the database file is found.
InitializeHandleLate(old, fresh, db) == IF Exists(db) THEN fresh ELSE old

\* line 87: magicHandle = magic_open(MAGIC_NONE), whatever the call finds next
InitializeHandle(old, fresh, db) == fresh

InitOutcomeAfter(before, st) ==
    IF st = "FAIL" THEN "failed"
    ELSE IF before \in {"failed", "recovered"} THEN "recovered"
    ELSE "ok"

Initialize ==
    /\ opened < MaxOpens
    /\ LET h   == opened + 1
           res == initialize(h, database)
       IN  /\ opened' = h
           /\ magicHandle' = InitializeHandle(magicHandle, h, database)
           /\ loaded' = IF res.loads = 1 /\ res.loadRc = 0 THEN loaded \cup {h} ELSE loaded
           /\ last' = res
           /\ initOutcome' = InitOutcomeAfter(initOutcome, res.status)
    /\ UNCHANGED <<database, attrs, concVars>>

(***************************************************************************)
(* run, lines 116-175.                                                     *)
(***************************************************************************)
\* A slip: a size is never negative.
SkipsFileNegative(size) == size < 0

\* line 124: if (pFile->getSize() == 0) return TskModule::OK
SkipsFile(size) == size = 0

\* A slip: twice the size of buffer is asked for.
ReadRequestDouble == 2 * FILE_BUFFER_SIZE

\* line 132: pFile->read(buffer, FILE_BUFFER_SIZE)
ReadRequest == FILE_BUFFER_SIZE

\* A slip: a read of nothing passes.
ReadFailedNegative(n) == n < 0

\* line 134: if (readLen <= 0)
ReadFailed(n) == n <= 0

\* A slip: the attribute is made from type, not from cleanType.
TskBlackboardAttributeRaw(label, clean) ==
    [attributeTypeID |-> "TSK_FILE_TYPE_SIG", source |-> MODULE_NAME,
     context |-> "", value |-> label]

\* line 156: TskBlackboardAttribute attr(TSK_FILE_TYPE_SIG, MODULE_NAME, "", cleanType)
TskBlackboardAttribute(label, clean) ==
    [attributeTypeID |-> "TSK_FILE_TYPE_SIG", source |-> MODULE_NAME,
     context |-> "", value |-> clean]

\* The call on pFile, given what the host and the library answer: getSize()
\* gives size, read gives rd, magic_buffer gives lbl, cleanType starts as g
\* and addGenInfoAttribute does add.  An answer the call never asks for is
\* not looked at.
run(handle, pFile, size, rd, lbl, g, add) ==
    LET c0 == [NoCall EXCEPT !.op = "run", !.file = pFile]
        c1 == [c0 EXCEPT !.size = size.value]
        c2 == [c1 EXCEPT !.reads = 1, !.readReq = ReadRequest]
        c3 == [c2 EXCEPT !.readLen = rd.value]
        c4 == [c3 EXCEPT !.matches = 1, !.matchLen = rd.value, !.matchHandle = handle,
                         !.label = lbl]
        c5 == [c4 EXCEPT !.garbage = g]
        Fail(c) == [c EXCEPT !.status = "FAIL", !.logs = 1]
        Caught(c) == [Fail(c) EXCEPT !.thrown = 1]
    IN  IF pFile = NULL THEN Fail(c0)
        \* getSize() is called outside the try block: what it throws leaves run
        ELSE IF size.thrown THEN [c0 EXCEPT !.status = "THROWN", !.thrown = 1]
        ELSE IF SkipsFile(size.value) THEN c1
        \* from here on, inside try: an exception is caught, logged and made FAIL
        ELSE IF rd.thrown THEN Caught(c2)
        ELSE IF ReadFailed(rd.value) THEN Fail(c3)
        ELSE IF lbl = NoLabel THEN Fail(c4)
        ELSE IF add.thrown THEN Caught(c5)
        ELSE [c5 EXCEPT !.adds = 1]

\* The attributes of the files after the call.
AttrsAfter(res) ==
    IF res.adds = 1
    THEN [attrs EXCEPT ![res.file] =
             Append(@, TskBlackboardAttribute(LabelTable[res.label],
                                              CleanTypeTable[res.label][res.garbage].value))]
    ELSE attrs

RECURSIVE SumLen(_, _)
SumLen(f, S) ==
    IF S = {} THEN 0
    ELSE LET x == CHOOSE y \in S : TRUE IN Len(f[x]) + SumLen(f, S \ {x})

Returns(res) ==
    /\ last' = res
    /\ attrs' = AttrsAfter(res)

Run ==
    /\ SumLen(attrs, Files) < MaxAttrs
    /\ \E pFile \in Files \cup {NULL}, size \in SizeOutcomes :
          IF pFile = NULL \/ size.thrown \/ SkipsFile(size.value)
          THEN Returns(run(magicHandle, pFile, size, Thrown, NoLabel, 1, Thrown))
          ELSE \E rd \in ReadOutcomes(size.value, ReadRequest) :
                  IF rd.thrown \/ ReadFailed(rd.value)
                  THEN Returns(run(magicHandle, pFile, size, rd, NoLabel, 1, Thrown))
                  ELSE \E lbl \in MagicBufferOutcomes(magicHandle) :
                          IF lbl = NoLabel
                          THEN Returns(run(magicHandle, pFile, size, rd, lbl, 1, Thrown))
                          ELSE \E g \in Garbage, add \in AddOutcomes :
                                  Returns(run(magicHandle, pFile, size, rd, lbl, g, add))
    /\ UNCHANGED <<magicHandle, opened, loaded, database, initOutcome, concVars>>

(***************************************************************************)
(* finalize, lines 177-180.                                                *)
(***************************************************************************)
\* A slip: finalize clears the handle.
FinalizeHandleCleared(h) == NULL

\* The handle is neither closed nor cleared.
FinalizeHandle(h) == h

Finalize ==
    /\ last' = [NoCall EXCEPT !.op = "finalize"]
    /\ magicHandle' = FinalizeHandle(magicHandle)
    /\ UNCHANGED <<opened, loaded, database, attrs, initOutcome, concVars>>

(***************************************************************************)
(* The host's file system: the database file appears, disappears or is     *)
(* replaced between calls.                                                 *)
(***************************************************************************)
DatabaseStates == {"missing", "corrupt", "good"}

DatabaseChanges ==
    /\ \E db \in DatabaseStates \ {database} : database' = db
    /\ last' = [NoCall EXCEPT !.op = "host"]
    /\ UNCHANGED <<magicHandle, opened, loaded, attrs, initOutcome, concVars>>

(***************************************************************************)
(* The module as the host calls it, one call at a time.                    *)
(***************************************************************************)
NoThreads ==
    /\ pc = [t \in Threads |-> "idle"]
    /\ readLen = [t \in Threads |-> 0]
    /\ type = [t \in Threads |-> NULL]
    /\ stale = {}
    /\ result = NoLabel
    /\ inMagic = {}
    /\ raced = {}
    /\ cleanType = [t \in Threads |-> <<>>]
    /\ status = [t \in Threads |-> "none"]

Init ==
    /\ magicHandle = NULL
    /\ opened = 0
    /\ loaded = {}
    /\ database \in DatabaseStates
    /\ attrs = [f \in Files |-> <<>>]
    /\ last = NoCall
    /\ initOutcome = "none"
    /\ fileLabel = [f \in Files |-> f]
    /\ NoThreads

Next == Initialize \/ Run \/ Finalize \/ DatabaseChanges

Spec == Init /\ [][Next]_vars

(***************************************************************************)
(* Two threads of the host inside run at once, thread t on file t, after   *)
(* an initialize that returned OK.  Both use the one magicHandle, and      *)
(* nothing in run orders their steps.  A step is one of: the checks and    *)
(* the read (lines 118-139), the entry into magic_buffer and the return    *)
(* from it (line 141), the copy of the label into cleanType (lines         *)
(* 150-153), the attribute write (lines 156-157).                          *)
(*                                                                         *)
(* libmagic keeps the label in a buffer of the handle: magic_buffer        *)
(* releases the previous result on entry and returns a pointer to the new  *)
(* one.  A pointer kept across another magic_buffer call on the handle     *)
(* dangles, and two calls inside magic_buffer at once race on the buffer:  *)
(* what is then read is any label at all.                                  *)
(***************************************************************************)
\* A slip: cleanType is static, one array for all calls.
CleanTypeSlotStatic(t) == 1

\* line 150: char cleanType[1024], an automatic array, one per call
CleanTypeSlot(t) == t

Finish(t, st) ==
    /\ pc' = [pc EXCEPT ![t] = "done"]
    /\ status' = [status EXCEPT ![t] = st]

RunRead(t) ==
    /\ pc[t] = "idle"
    /\ \E size \in {n \in FileSizes : ~SkipsFile(n)} :
          \E rd \in ReadOutcomes(size, ReadRequest) :
             IF rd.thrown \/ ReadFailed(rd.value)
             THEN Finish(t, "FAIL") /\ UNCHANGED readLen
             ELSE /\ readLen' = [readLen EXCEPT ![t] = rd.value]
                  /\ pc' = [pc EXCEPT ![t] = "match"]
                  /\ UNCHANGED status
    /\ UNCHANGED <<seqVars, attrs, fileLabel, type, stale, result, inMagic, raced,
                   cleanType>>

MagicBufferCall(t) ==
    /\ pc[t] = "match"
    /\ pc' = [pc EXCEPT ![t] = "inMagic"]
    /\ inMagic' = inMagic \cup {t}
    /\ raced' = IF inMagic # {} THEN raced \cup inMagic \cup {t} ELSE raced
    /\ stale' = stale \cup {u \in Threads \ {t} : pc[u] = "copy"}
    /\ UNCHANGED <<seqVars, attrs, fileLabel, readLen, type, result, cleanType, status>>

MagicBufferReturn(t) ==
    /\ pc[t] = "inMagic"
    /\ inMagic' = inMagic \ {t}
    /\ \E lbl \in IF t \in raced THEN Labels \cup {NoLabel}
                  ELSE MagicBufferOutcomes(magicHandle) \cap {fileLabel[t], NoLabel} :
          /\ type' = [type EXCEPT ![t] = IF lbl = NoLabel THEN NULL ELSE magicHandle]
          /\ IF lbl = NoLabel
             THEN Finish(t, "FAIL") /\ UNCHANGED result
             ELSE /\ result' = lbl
                  /\ pc' = [pc EXCEPT ![t] = "copy"]
                  /\ UNCHANGED status
    /\ UNCHANGED <<seqVars, attrs, fileLabel, readLen, stale, raced, cleanType>>

CopyLabel(t) ==
    /\ pc[t] = "copy"
    /\ \E src \in IF t \in stale \cup raced THEN Labels ELSE {result}, g \in Garbage :
          cleanType' = [cleanType EXCEPT ![CleanTypeSlot(t)] = CleanTypeTable[src][g].value]
    /\ pc' = [pc EXCEPT ![t] = "add"]
    /\ UNCHANGED <<seqVars, attrs, fileLabel, readLen, type, stale, result, inMagic,
                   raced, status>>

AddAttribute(t) ==
    /\ pc[t] = "add"
    /\ \E add \in AddOutcomes :
          IF add.thrown
          THEN Finish(t, "FAIL") /\ UNCHANGED attrs
          ELSE /\ attrs' = [attrs EXCEPT ![t] =
                               Append(@, TskBlackboardAttribute(LabelTable[result],
                                                                cleanType[CleanTypeSlot(t)]))]
               /\ Finish(t, "OK")
    /\ UNCHANGED <<seqVars, fileLabel, readLen, type, stale, result, inMagic, raced,
                   cleanType>>

InitConc ==
    /\ magicHandle = 1
    /\ opened = 1
    /\ loaded = {1}
    /\ database = "good"
    /\ attrs = [f \in Files |-> <<>>]
    /\ last = initialize(1, "good")
    /\ initOutcome = "ok"
    /\ fileLabel \in [Files -> Labels]
    /\ NoThreads

NextConc ==
    \E t \in Threads :
       \/ RunRead(t)
       \/ MagicBufferCall(t)
       \/ MagicBufferReturn(t)
       \/ CopyLabel(t)
       \/ AddAttribute(t)

SpecConc == InitConc /\ [][NextConc]_vars

(***************************************************************************)
(* Properties of the module.                                               *)
(***************************************************************************)
\* What cleanUTF8 makes of the first 1023 bytes of each label, and of each
\* whole label.
SanitizedPrefix == Tuple([k \in Labels |-> cleanUTF8(Prefix(LabelTable[k], 1023))])

SanitizedWhole == Tuple([k \in Labels |-> cleanUTF8(LabelTable[k])])

TypeSigAttribute(value) ==
    [attributeTypeID |-> "TSK_FILE_TYPE_SIG", source |-> "FileTypeSigModule",
     context |-> "", value |-> value]

\* C1: run on a non-NULL file whose getSize() is 0 returns OK, reads nothing,
\* does not call magic_buffer, logs nothing and leaves every file's
\* attributes as they were, whatever the state of the handle.
C1_ZeroLengthSkipped ==
    [][(last'.op = "run" /\ last'.file # NULL /\ last'.size = 0)
          => /\ last'.status = "OK"
             /\ last'.reads = 0
             /\ last'.matches = 0
             /\ last'.logs = 0
             /\ last'.adds = 0
             /\ attrs' = attrs]_vars

\* C1 happens: a zero-length file is run after an initialize that failed.
C1_Witness ==
    /\ last.op = "run" /\ last.file # NULL /\ last.size = 0 /\ last.status = "OK"
    /\ magicHandle # NULL /\ magicHandle \notin loaded

\* C2 as stated: when the read gives a positive length, the matcher a label
\* and nothing throws, run returns OK and has added to the file exactly one
\* attribute, TSK_FILE_TYPE_SIG from FileTypeSigModule, whose value is
\* cleanUTF8 of the label; no other file changes.
C2_WholeLabel ==
    [][(/\ last'.op = "run" /\ last'.file # NULL /\ last'.size > 0
        /\ last'.readLen > 0 /\ last'.label # NoLabel /\ last'.thrown = 0)
          => /\ last'.status = "OK"
             /\ attrs' = [attrs EXCEPT ![last'.file] =
                             Append(@, TypeSigAttribute(SanitizedWhole[last'.label]))]]_vars

\* C2 as amended: ... whose value is cleanUTF8 of the first min(L, 1023)
\* bytes of the label of L bytes the matcher returned.
C2_OneSanitizedAttribute ==
    [][(/\ last'.op = "run" /\ last'.file # NULL /\ last'.size > 0
        /\ last'.readLen > 0 /\ last'.label # NoLabel /\ last'.thrown = 0)
          => /\ last'.status = "OK"
             /\ attrs' = [attrs EXCEPT ![last'.file] =
                             Append(@, TypeSigAttribute(SanitizedPrefix[last'.label]))]]_vars

\* C2 happens: run has returned OK for a label longer than 1023 bytes.
C2_Witness ==
    /\ last.op = "run" /\ last.status = "OK" /\ last.adds = 1
    /\ Len(LabelTable[last.label]) > 1023
    /\ Len(attrs[last.file]) = 1

\* C3: initialize returns FAIL, with one error logged, exactly when the
\* database file does not exist or magic_load reports an error for it, and
\* OK, with nothing logged, otherwise; magic_load is not called when the
\* file does not exist.
C3_InitializeOutcome ==
    last.op = "initialize"
       => /\ last.exists = (database # "missing")
          /\ last.status = IF database = "good" THEN "OK" ELSE "FAIL"
          /\ last.logs = IF last.status = "FAIL" THEN 1 ELSE 0
          /\ last.loads = IF last.exists THEN 1 ELSE 0
          /\ (last.status = "FAIL") = (~last.exists \/ last.loadRc # 0)

\* C3 happens: initialize found the file and magic_load reported an error.
C3_Witness ==
    /\ last.op = "initialize" /\ last.status = "FAIL"
    /\ last.exists /\ last.loads = 1 /\ last.loadRc # 0

\* C4 as stated: once initialize has returned FAIL, no later initialize
\* returns OK, and no later run gets a label from the matcher or adds an
\* attribute.
C4_FailurePermanent ==
    initOutcome \in {"failed", "recovered"}
       => /\ ~(last.op = "initialize" /\ last.status = "OK")
          /\ ~(last.op = "run" /\ (last.label # NoLabel \/ last.adds > 0))

\* C4 as amended: after initialize has returned FAIL, a later initialize
\* returns OK exactly when the database file exists and loads at that call,
\* and as long as no initialize has returned OK since, no run gets a label
\* from the matcher or adds an attribute.
C4_FailureLastsWithItsCause ==
    /\ (initOutcome \in {"failed", "recovered"} /\ last.op = "initialize")
          => (last.status = "OK") = (database = "good")
    /\ (initOutcome = "failed" /\ last.op = "run")
          => (last.label = NoLabel /\ last.adds = 0)

\* C4 happens: after a failed initialize the database file has appeared, and
\* run has called the matcher on the handle that holds no database.
C4_Witness ==
    /\ initOutcome = "failed" /\ database = "good"
    /\ last.op = "run" /\ last.matches = 1 /\ last.status = "FAIL"

\* C5: a read that throws or gives a length <= 0, and a NULL label, each make
\* run return FAIL; a run that returns FAIL has called read and magic_buffer
\* at most once each and leaves every file's attributes as they were.
C5_FailureWithoutPartialResult ==
    [][last'.op = "run"
          => /\ (last'.reads = 1 /\ (last'.thrown > 0 \/ last'.readLen <= 0))
                   => last'.status = "FAIL"
             /\ (last'.matches = 1 /\ last'.label = NoLabel) => last'.status = "FAIL"
             /\ last'.status = "FAIL"
                   => /\ last'.reads <= 1
                      /\ last'.matches <= 1
                      /\ last'.adds = 0
                      /\ attrs' = attrs]_vars

\* C5 happens: the matcher gave NULL for bytes that were read.
C5_Witness ==
    /\ last.op = "run" /\ last.status = "FAIL"
    /\ last.reads = 1 /\ last.readLen > 0 /\ last.matches = 1 /\ last.label = NoLabel

\* C6: every call ends by returning OK or FAIL, no exception leaves it; FAIL
\* comes with exactly one logged error and OK with none.
C6_OkOrFailAlways ==
    /\ last.status \in {"OK", "FAIL"}
    /\ last.status = "FAIL" => last.logs = 1
    /\ last.status = "OK" => last.logs = 0

\* C7: read is asked for exactly 1024 bytes, and the length n given to
\* magic_buffer is the length read returned, with 1 <= n <= 1024.
C7_ContentWindow ==
    last.op = "run"
       => /\ last.reads = 1 => last.readReq = 1024
          /\ last.matches = 1
                => /\ last.reads = 1
                   /\ last.matchLen = last.readLen
                   /\ 1 <= last.matchLen
                   /\ last.matchLen <= 1024

\* C7 happens: the matcher was given a full buffer of a file larger than it.
C7_Witness ==
    /\ last.op = "run" /\ last.matches = 1
    /\ last.size > 1024 /\ last.matchLen = 1024

\* C8: for a label of L bytes, cleanUTF8 is handed the first min(L, 1023)
\* bytes of the label, terminated inside cleanType; no cell past index 1023
\* is read or written, and the value stored in the attribute is what
\* cleanUTF8 made of that string, at most 1023 bytes.
C8_TerminatedAtMost1023 ==
    (last.op = "run" /\ last.label # NoLabel)
       => LET ct == CleanTypeTable[last.label][last.garbage]
              label == LabelTable[last.label]
              n == IF Len(label) < 1023 THEN Len(label) ELSE 1023
          IN  /\ ct.terminated
              /\ ct.maxIndex <= 1023
              /\ Len(ct.handed) = n
              /\ \A i \in 1..n : ct.handed[i] = label[i]
              /\ Len(ct.value) = n
              /\ last.adds = 1
                    => attrs[last.file][Len(attrs[last.file])].value = ct.value

\* C8 happens: a label of 1023 bytes or more was copied and stored.
C8_Witness ==
    /\ last.op = "run" /\ last.adds = 1
    /\ Len(LabelTable[last.label]) >= 1023
    /\ Len(attrs[last.file][1].value) = 1023

\* C9 as stated: magic_open is called at most once over all calls; only
\* initialize assigns magicHandle; every run that calls the matcher uses
\* magicHandle.
C9_OpenedOnce ==
    /\ opened <= 1
    /\ magicHandle \in {NULL, 1}
    /\ last.matches = 1 => last.matchHandle = magicHandle

\* C9 as amended: every initialize call calls magic_open once and assigns
\* the new handle to magicHandle; no other call opens a handle or assigns
\* magicHandle (finalize neither closes nor clears it); every run that calls
\* the matcher gives it magicHandle, the handle of the latest initialize.
C9_OneHandlePerInitialize ==
    [][/\ opened' # opened
            => /\ last'.op = "initialize"
               /\ opened' = opened + 1
               /\ magicHandle' = opened'
       /\ last'.op = "initialize" => opened' # opened
       /\ opened' = opened => magicHandle' = magicHandle
       /\ last'.matches = 1
            => /\ last'.matchHandle = magicHandle'
               /\ last'.matchHandle = opened']_vars

\* C9 happens: initialize was called twice and run gave the matcher the
\* second handle.
C9_Witness ==
    /\ opened = 2 /\ magicHandle = 2
    /\ last.op = "run" /\ last.matches = 1 /\ last.matchHandle = 2

====
